---- MODULE Spec2Model ----
(***************************************************************************)
(* Model of the yahooapi package: the OAuth2 handshake handlers AuthYahoo  *)
(* and AuthYahooCallback (auth.go) and the relay GetUserCollection with    *)
(* its HTTP handler UserCollectionHandler.                                 *)
(*                                                                         *)
(* Every inbound request runs in its own goroutine (net/http), so a        *)
(* request occupies a slot and advances through its handler in steps; the  *)
(* steps are cut where the handler touches something shared: the session   *)
(* store (Get, Save) and the network (Exchange, client.Get).  A handler    *)
(* works on its own copy of the session (gorilla sessions keeps one        *)
(* Session per request), which only Save publishes to the store.           *)
(* log.Fatal ends the whole process; a panic in a handler ends only that   *)
(* request (net/http recovers it and drops the connection).                *)
(***************************************************************************)
EXTENDS Integers, Sequences, FiniteSets, TLC

\* ---------------------------------------------------------------- bounds
NumSessions == 2
NumSlots == 2
MaxRequests == 3

Sessions == 1..NumSessions
Slots == 1..NumSlots

\* ------------------------------------------------- session values (a map)
\* An entry of session.Values is absent ({}) or holds one value ({v}).
Absent == {}

Some(x) == {x}

\* Strings are sequences of characters.  The stored `state` values tried.
StateVals == { <<"a">>, <<"b", "+">> }

\* The `state` query parameter of a callback; <<>> is a missing parameter.
CallbackStates == { <<"a">>, <<>> }

\* The xoauth_yahoo_guid the remote service sends with a callback: the guid
\* of the user who consented, one user per session.
GuidOf(s) == <<"guid", s>>

Bodies == { "xml1", "xml2" }

\* An oauth2.Token.  form is its dynamic type inside the interface value:
\* "ptr" for *oauth2.Token, "val" for oauth2.Token.
\* access and refresh are its AccessToken and RefreshToken (0: no refresh
\* token), expired says whether its Expiry has passed.
Token(form, id) == [form |-> form, access |-> id, refresh |-> id, expired |-> FALSE]

\* The token t once its Expiry has passed, with or without a refresh token.
Expired(t, refreshable) ==
    [t EXCEPT !.expired = TRUE, !.refresh = IF refreshable THEN @ ELSE 0]

\* The token the token endpoint answers a refresh of t with: a new access
\* token of the same grant.
Refreshed(t) ==
    [t EXCEPT !.expired = FALSE, !.access = @ - 100]

\* A token the host application put in the session store as an oauth2.Token
\* value (the store is the host's, handed to NewYahooConfig).
HostToken(s) == Token("val", 0 - s)

EmptyValues == [state |-> Absent, token |-> Absent, guid |-> Absent]

\* The tokens the host may have put there: valid, or expired with or without
\* a refresh token.
HostTokens(s) ==
    { HostToken(s) } \cup { Expired(HostToken(s), b) : b \in BOOLEAN }

\* What a session may hold when the first request arrives: nothing (a new
\* session), a `state` the host put there, or a `state` and a token of the
\* host's own.  The handlers of this package write `token` and
\* `xoauth_yahoo_guid` only.
InitValues(s) ==
    { EmptyValues }
    \cup { [state |-> Some(x), token |-> Absent, guid |-> Absent] : x \in StateVals }
    \cup { [state |-> Some(<<"a">>), token |-> Some(t), guid |-> Absent] :
             t \in HostTokens(s) }

\* ------------------------------------------------------ net/url escaping
\* url.QueryEscape of one character: unreserved characters stay, a space
\* becomes "+", anything else becomes %XX.
EscapeChar(c) ==
    CASE c = " " -> <<"+">>
      [] c = "+" -> <<"%", "2", "B">>
      [] c = "%" -> <<"%", "2", "5">>
      [] c = "&" -> <<"%", "2", "6">>
      [] OTHER   -> <<c>>

RECURSIVE QueryEscape(_)
QueryEscape(s) ==
    IF s = <<>> THEN <<>> ELSE EscapeChar(Head(s)) \o QueryEscape(Tail(s))

\* The character a %XX triple stands for; "" when XX is not hex here.
HexChar(h, l) ==
    CASE h = "2" /\ l = "B" -> "+"
      [] h = "2" /\ l = "5" -> "%"
      [] h = "2" /\ l = "6" -> "&"
      [] h = "2" /\ l = "0" -> " "
      [] OTHER -> ""

\* url.QueryUnescape: "+" becomes a space, %XX becomes its character, a
\* malformed % makes the whole call fail with the empty string.
RECURSIVE QueryUnescape(_)
QueryUnescape(s) ==
    IF s = <<>> THEN [ok |-> TRUE, s |-> <<>>]
    ELSE IF Head(s) = "%" THEN
        IF Len(s) < 3 \/ HexChar(s[2], s[3]) = ""
        THEN [ok |-> FALSE, s |-> <<>>]
        ELSE LET rest == QueryUnescape(SubSeq(s, 4, Len(s)))
             IN  IF rest.ok THEN [ok |-> TRUE, s |-> <<HexChar(s[2], s[3])>> \o rest.s]
                 ELSE rest
    ELSE LET rest == QueryUnescape(Tail(s))
             c == IF Head(s) = "+" THEN " " ELSE Head(s)
         IN  IF rest.ok THEN [ok |-> TRUE, s |-> <<c>> \o rest.s] ELSE rest

\* conf.AuthCodeURL(state, AccessTypeOnline): the consent URL; its query is
\* url.Values.Encode(), of which the model keeps the `state` parameter (the
\* others are configuration).
AuthCodeURL(st) == [base |-> "consent", state |-> QueryEscape(st)]

\* The Location AuthYahoo redirects to: url.QueryUnescape of the whole URL,
\* the empty string when unescaping fails (the error is only logged).
RedirectLocation(st) ==
    LET u == AuthCodeURL(st)
        r == QueryUnescape(u.state)
    IN  IF r.ok THEN [base |-> u.base, state |-> r.s]
        ELSE [base |-> "", state |-> <<>>]

\* ------------------------------------------------------------ responses
NoResp == [kind |-> "none", code |-> 0, base |-> "", state |-> <<>>, body |-> <<>>]

\* http.Error(w, err.Error(), 500)
Error500 == [kind |-> "error", code |-> 500, base |-> "", state |-> <<>>, body |-> <<>>]

\* http.Redirect(w, r, url, 302)
Redirect(loc) ==
    [kind |-> "redirect", code |-> 302, base |-> loc.base, state |-> loc.state, body |-> <<>>]

\* w.Write(b): the status is the default 200.
Written(b) == [kind |-> "body", code |-> 200, base |-> "", state |-> <<>>, body |-> b]

\* json.MarshalIndent(user, "", "  ") of the *UserCollection the relay returned:
\* "null" for the nil pointer, an object with the one field Body otherwise.
MarshalIndent(user) ==
    IF user = Absent THEN <<"null">>
    ELSE <<"{Body:", CHOOSE b \in user : TRUE, "}">>

\* A panic in the handler goroutine: net/http recovers it, logs it and drops
\* the connection; the client gets no response.
Aborted == [kind |-> "aborted", code |-> 0, base |-> "", state |-> <<>>, body |-> <<>>]

\* ------------------------------------------------------------- the state
VARIABLES
    alive,      \* the server process runs (log.Fatal has not ended it)
    store,      \* the session store: session -> its saved Values
    req,        \* slot -> the request it serves: kind, session, parameters
    pc,         \* slot -> where its handler stands
    local,      \* slot -> the handler's own session.Values (from store.Get)
    tok,        \* slot -> the token conf.Exchange returned to the handler
    resp,       \* slot -> the response the client got
    accepted,   \* requests accepted so far
    nextTok,    \* the next token the remote service issues
    begun,      \* sessions AuthYahoo has redirected to the consent page
    exchanges,  \* log: the token exchanges issued
    netCalls,   \* log: the relayed calls issued
    sent,       \* slot -> outbound requests its handler has issued
    got,        \* slot -> the remote service's answer to its relayed call
    storeErr,   \* slot -> SessionStore.Get returned an error to its handler
    cleared,    \* sessions whose credential was cleared and not stored since
    completed,  \* log: the session and `state` of every callback that saved
    mutation,   \* the mutation operation called last, and how many were
    address,    \* the ResourceAddress handed to Compose
    runs,       \* log: the calls of Compose, the order the filters were met in and the result
    executes,   \* the calls of Execute for the address
    outbound    \* the requests Execute has issued for the address

\* The variables of address composition.
cvars == <<address, runs, executes, outbound>>

\* The variables of the handlers.
hvars == <<alive, store, req, pc, local, tok, resp, accepted, nextTok, begun,
           exchanges, netCalls, sent, got, storeErr, cleared, completed, mutation>>

vars == <<hvars, cvars>>

\* No answer of the remote service (yet).
NoRemote == [status |-> 0, body |-> ""]

\* The statuses the remote service answers a relayed call with.
Statuses == { 200, 401 }

NoReq == [kind |-> "none", sess |-> 1, state |-> <<>>, guid |-> <<>>]

\* No mutation operation called yet.
NoMutation == [op |-> "none", n |-> 0]

\* No address: the handlers of this package take none.
NoAddress == [entity |-> <<>>, keys |-> <<>>, chain |-> <<>>, filters |-> <<>>, out |-> <<>>]

InitHandlers ==
    /\ alive = TRUE
    /\ store \in { f \in [Sessions -> UNION { InitValues(s) : s \in Sessions }] :
                      \A s \in Sessions : f[s] \in InitValues(s) }
    /\ req = [r \in Slots |-> NoReq]
    /\ pc = [r \in Slots |-> "idle"]
    /\ local = [r \in Slots |-> EmptyValues]
    /\ tok = [r \in Slots |-> Absent]
    /\ resp = [r \in Slots |-> NoResp]
    /\ accepted = 0
    /\ nextTok = 1
    /\ begun = {}
    /\ exchanges = {}
    /\ netCalls = {}
    /\ sent = [r \in Slots |-> 0]
    /\ got = [r \in Slots |-> NoRemote]
    /\ storeErr = [r \in Slots |-> FALSE]
    /\ cleared = {}
    /\ completed = {}
    /\ mutation = NoMutation

Init ==
    /\ InitHandlers
    /\ address = NoAddress
    /\ runs = {}
    /\ executes = 0
    /\ outbound = 0

\* ------------------------------------------------------------- requests
\* The routes of RegisterRoutes and the handler each starts.
FirstStep(kind) ==
    CASE kind = "auth"     -> "auth"
      [] kind = "callback" -> "cbGet"
      [] kind = "relay"    -> "relayGet"

\* The server accepts a request of the given kind for session s (its cookie)
\* with the query parameters state and xoauth_yahoo_guid; it is served in
\* the first free slot.
Accept(r, kind, s, st, g) ==
    /\ alive
    /\ pc[r] \in {"idle", "done"}
    /\ \A q \in Slots : q < r => pc[q] \notin {"idle", "done"}
    /\ accepted < MaxRequests
    /\ accepted' = accepted + 1
    /\ req' = [req EXCEPT ![r] =
                 [kind |-> kind, sess |-> s, state |-> st, guid |-> g]]
    /\ pc' = [pc EXCEPT ![r] = FirstStep(kind)]
    /\ local' = [local EXCEPT ![r] = EmptyValues]
    /\ tok' = [tok EXCEPT ![r] = Absent]
    /\ resp' = [resp EXCEPT ![r] = NoResp]
    /\ sent' = [sent EXCEPT ![r] = 0]
    /\ got' = [got EXCEPT ![r] = NoRemote]
    /\ storeErr' = [storeErr EXCEPT ![r] = FALSE]
    /\ UNCHANGED <<cleared, completed, mutation, cvars>>
    /\ UNCHANGED <<alive, store, nextTok, begun, exchanges, netCalls>>

\* The handler of slot r ends with the response rs.
Finish(r, rs) ==
    /\ pc' = [pc EXCEPT ![r] = "done"]
    /\ resp' = [resp EXCEPT ![r] = rs]
    /\ tok' = [tok EXCEPT ![r] = Absent]

\* log.Fatal: the message is printed and os.Exit(1) ends the process, the
\* handler of slot r with it; no request in flight gets a response.
Fatal(r) ==
    /\ alive' = FALSE
    /\ pc' = [pc EXCEPT ![r] = "fatal"]

\* ------------------------------------------------------------ AuthYahoo
\* SessionStore.Get fails: 500, nothing else.
AuthYahooGetFails(r) ==
    /\ alive /\ pc[r] = "auth"
    /\ Finish(r, Error500)
    /\ storeErr' = [storeErr EXCEPT ![r] = TRUE]
    /\ UNCHANGED <<sent, got>>
    /\ UNCHANGED <<cleared, completed, mutation, cvars>>
    /\ UNCHANGED <<alive, store, req, local, accepted, nextTok, begun,
                   exchanges, netCalls>>

\* session.Values["state"].(string) on a session without `state` panics.
AuthYahooPanics(r) ==
    /\ alive /\ pc[r] = "auth"
    /\ store[req[r].sess].state = Absent
    /\ local' = [local EXCEPT ![r] = store[req[r].sess]]
    /\ Finish(r, Aborted)
    /\ UNCHANGED <<sent, got, storeErr>>
    /\ UNCHANGED <<cleared, completed, mutation, cvars>>
    /\ UNCHANGED <<alive, store, req, accepted, nextTok, begun,
                   exchanges, netCalls>>

\* The consent URL is built from the session's `state`, unescaped, and the
\* client redirected to it.  The session is neither changed nor saved.
AuthYahooRedirects(r) ==
    /\ alive /\ pc[r] = "auth"
    /\ store[req[r].sess].state # Absent
    /\ local' = [local EXCEPT ![r] = store[req[r].sess]]
    /\ \E st \in store[req[r].sess].state :
           Finish(r, Redirect(RedirectLocation(st)))
    /\ begun' = begun \cup {req[r].sess}
    /\ UNCHANGED <<sent, got, storeErr>>
    /\ UNCHANGED <<cleared, completed, mutation, cvars>>
    /\ UNCHANGED <<alive, store, req, accepted, nextTok, exchanges, netCalls>>

AuthYahoo(r) ==
    \/ AuthYahooGetFails(r)
    \/ AuthYahooPanics(r)
    \/ AuthYahooRedirects(r)

\* ---------------------------------------------------- AuthYahooCallback
\* CallbackGetFails, were the return after http.Error missing.
CallbackGetFailsGoesOn(r) ==
    /\ alive /\ pc[r] = "cbGet"
    /\ pc' = [pc EXCEPT ![r] = "cbExchange"]
    /\ resp' = [resp EXCEPT ![r] = Error500]
    /\ storeErr' = [storeErr EXCEPT ![r] = TRUE]
    /\ UNCHANGED <<sent, got, tok>>
    /\ UNCHANGED <<cleared, completed, mutation, cvars>>
    /\ UNCHANGED <<alive, store, req, local, accepted, nextTok, begun,
                   exchanges, netCalls>>

\* SessionStore.Get fails: 500, nothing else.
CallbackGetFails(r) ==
    /\ alive /\ pc[r] = "cbGet"
    /\ Finish(r, Error500)
    /\ storeErr' = [storeErr EXCEPT ![r] = TRUE]
    /\ UNCHANGED <<sent, got>>
    /\ UNCHANGED <<cleared, completed, mutation, cvars>>
    /\ UNCHANGED <<alive, store, req, local, accepted, nextTok, begun,
                   exchanges, netCalls>>

\* SessionStore.Get returns the session; the handler reads the `code`
\* parameter and goes on to the exchange.  The `state` parameter is not read.
CallbackGet(r) ==
    /\ alive /\ pc[r] = "cbGet"
    /\ local' = [local EXCEPT ![r] = store[req[r].sess]]
    /\ pc' = [pc EXCEPT ![r] = "cbExchange"]
    /\ UNCHANGED <<sent, got, storeErr>>
    /\ UNCHANGED <<cleared, completed, mutation, cvars>>
    /\ UNCHANGED <<alive, store, req, tok, resp, accepted, nextTok, begun,
                   exchanges, netCalls>>

\* The log entry of the token request conf.Exchange sends for slot r.
ExchangeEntry(r, ok) ==
    [sess |-> req[r].sess, cbState |-> req[r].state,
     stored |-> local[r].state, begun |-> (req[r].sess \in begun), ok |-> ok]

\* conf.Exchange succeeds: the remote service issues a new token.
CallbackExchangeOk(r) ==
    /\ alive /\ pc[r] = "cbExchange"
    /\ exchanges' = exchanges \cup {ExchangeEntry(r, TRUE)}
    /\ tok' = [tok EXCEPT ![r] = Some(Token("ptr", nextTok))]
    /\ nextTok' = nextTok + 1
    /\ pc' = [pc EXCEPT ![r] = "cbSave"]
    /\ sent' = [sent EXCEPT ![r] = @ + 1]
    /\ UNCHANGED <<got, storeErr>>
    /\ UNCHANGED <<cleared, completed, mutation, cvars>>
    /\ UNCHANGED <<alive, store, req, local, resp, accepted, begun, netCalls>>

\* conf.Exchange fails (network error or rejection): log.Fatal(err).
CallbackExchangeFails(r) ==
    /\ alive /\ pc[r] = "cbExchange"
    /\ exchanges' = exchanges \cup {ExchangeEntry(r, FALSE)}
    /\ Fatal(r)
    /\ sent' = [sent EXCEPT ![r] = @ + 1]
    /\ UNCHANGED <<got, storeErr>>
    /\ UNCHANGED <<cleared, completed, mutation, cvars>>
    /\ UNCHANGED <<store, req, local, tok, resp, accepted, nextTok, begun, netCalls>>

\* CallbackValues, were the token not set.
CallbackValuesGuidOnly(r) ==
    [local[r] EXCEPT !.guid = Some(req[r].guid)]

\* session.Values["token"] = tok; session.Values["xoauth_yahoo_guid"] = ...
CallbackValues(r) ==
    [local[r] EXCEPT !.token = tok[r], !.guid = Some(req[r].guid)]

\* Saved, were the values kept in one place shared by all sessions.
SavedEverywhere(r, ok) ==
    IF ok THEN [s \in Sessions |-> CallbackValues(r)] ELSE store

\* What session.Save leaves in the store for the session of slot r: the
\* handler's Values when it succeeds, what was there when it fails.
Saved(r, ok) ==
    IF ok THEN [store EXCEPT ![req[r].sess] = CallbackValues(r)] ELSE store

\* The two values are set, session.Save is called and its error dropped, and
\* the client is redirected to the landing location.
CallbackSave(r) ==
    /\ alive /\ pc[r] = "cbSave"
    /\ local' = [local EXCEPT ![r] = CallbackValues(r)]
    /\ \E ok \in BOOLEAN :
          /\ store' = Saved(r, ok)
          /\ cleared' = IF ok THEN cleared \ {req[r].sess} ELSE cleared
          /\ completed' = IF ok THEN completed \cup {<<req[r].sess, req[r].state>>}
                          ELSE completed
    /\ UNCHANGED <<mutation, cvars>>
    /\ Finish(r, Redirect([base |-> "landing", state |-> <<>>]))
    /\ UNCHANGED <<sent, got, storeErr>>
    /\ UNCHANGED <<alive, req, accepted, nextTok, begun, exchanges, netCalls>>

AuthYahooCallback(r) ==
    \/ CallbackGetFails(r)
    \/ CallbackGet(r)
    \/ CallbackExchangeOk(r)
    \/ CallbackExchangeFails(r)
    \/ CallbackSave(r)

\* ------------------------------- GetUserCollection / UserCollectionHandler
\* SessionStore.Get fails: the error is logged, GetUserCollection returns nil
\* and the handler writes the JSON of nil.
RelayGetFails(r) ==
    /\ alive /\ pc[r] = "relayGet"
    /\ Finish(r, Written(MarshalIndent(Absent)))
    /\ storeErr' = [storeErr EXCEPT ![r] = TRUE]
    /\ UNCHANGED <<sent, got>>
    /\ UNCHANGED <<cleared, completed, mutation, cvars>>
    /\ UNCHANGED <<alive, store, req, local, accepted, nextTok, begun,
                   exchanges, netCalls>>

\* session.Values["token"].(oauth2.Token): holds only for an oauth2.Token
\* value; a missing entry or a *oauth2.Token makes it panic.
TokenAssertionHolds(values) ==
    \E t \in values.token : t.form = "val"

\* The session the relay works with: that of the request's cookie.
RelaySession(r) == req[r].sess

RelayPanics(r) ==
    /\ alive /\ pc[r] = "relayGet"
    /\ ~TokenAssertionHolds(store[RelaySession(r)])
    /\ local' = [local EXCEPT ![r] = store[RelaySession(r)]]
    /\ Finish(r, Aborted)
    /\ UNCHANGED <<sent, got, storeErr>>
    /\ UNCHANGED <<cleared, completed, mutation, cvars>>
    /\ UNCHANGED <<alive, store, req, accepted, nextTok, begun,
                   exchanges, netCalls>>

\* The token is read and the client built with it.
RelayGet(r) ==
    /\ alive /\ pc[r] = "relayGet"
    /\ TokenAssertionHolds(store[RelaySession(r)])
    /\ local' = [local EXCEPT ![r] = store[RelaySession(r)]]
    /\ tok' = [tok EXCEPT ![r] = store[RelaySession(r)].token]
    /\ pc' = [pc EXCEPT ![r] = "relayCall"]
    /\ UNCHANGED <<sent, got, storeErr>>
    /\ UNCHANGED <<cleared, completed, mutation, cvars>>
    /\ UNCHANGED <<alive, store, req, resp, accepted, nextTok, begun,
                   exchanges, netCalls>>

\* RelayLeaves, were the handler to save the client's token in the session.
RelayLeavesSaved(r) ==
    [store EXCEPT ![req[r].sess].token = tok[r]]

\* What the relay leaves in the session store: GetUserCollection never
\* writes session.Values and never calls session.Save.
RelayLeaves(r) == store

\* The text of an access token.
TokenText(id) == "tok" \o ToString(id)

\* The URL GetUserCollection asks for, in its parts.
RelayURL ==
    <<"http://fantasysports.yahooapis.com", "/fantasy/v2/users", ";use_login=1">>

\* CallEntry, were the token passed as a query parameter of the URL.
CallEntryTokenInQuery(r) ==
    [sess |-> req[r].sess,
     access |-> { t.access : t \in tok[r] },
     url |-> RelayURL \o <<";access_token=">>
               \o <<CHOOSE x \in { TokenText(t.access) : t \in tok[r] } : TRUE>>,
     authorization |-> {}]

\* The request client.Get sends for slot r, as logged: the URL, and the
\* Authorization header the oauth2 transport sets from the client's token.
CallEntry(r) ==
    [sess |-> req[r].sess,
     access |-> { t.access : t \in tok[r] },
     url |-> RelayURL,
     authorization |-> { TokenText(t.access) : t \in tok[r] }]

\* token.Valid() of the oauth2 token source: the client uses its token as
\* long as its expiry has not passed.
ClientTokenValid(r) == \A t \in tok[r] : ~t.expired

\* The client's token is expired and has no refresh token: client.Get
\* returns the token source's error without sending anything; log.Fatal(err).
RelayTokenExpired(r) ==
    /\ alive /\ pc[r] = "relayCall"
    /\ \E t \in tok[r] : t.expired /\ t.refresh = 0
    /\ Fatal(r)
    /\ UNCHANGED <<cleared, completed, mutation, cvars>>
    /\ UNCHANGED <<store, req, local, tok, resp, accepted, nextTok, begun,
                   exchanges, netCalls, sent, got, storeErr>>

\* The client's token is expired and has a refresh token: inside client.Get
\* the token source asks the token endpoint for a new one, which the client
\* keeps for itself (the session is not written).
RelayRefreshes(r) ==
    /\ alive /\ pc[r] = "relayCall"
    /\ \E t \in tok[r] :
          /\ t.expired /\ t.refresh # 0
          /\ tok' = [tok EXCEPT ![r] = Some(Refreshed(t))]
    /\ sent' = [sent EXCEPT ![r] = @ + 1]
    /\ store' = RelayLeaves(r)
    /\ UNCHANGED <<cleared, completed, mutation, cvars>>
    /\ UNCHANGED <<alive, req, pc, local, resp, accepted, nextTok, begun,
                   exchanges, netCalls, got, storeErr>>

\* The refresh fails: client.Get returns the error; log.Fatal(err).
RelayRefreshFails(r) ==
    /\ alive /\ pc[r] = "relayCall"
    /\ \E t \in tok[r] : t.expired /\ t.refresh # 0
    /\ sent' = [sent EXCEPT ![r] = @ + 1]
    /\ Fatal(r)
    /\ UNCHANGED <<cleared, completed, mutation, cvars>>
    /\ UNCHANGED <<store, req, local, tok, resp, accepted, nextTok, begun,
                   exchanges, netCalls, got, storeErr>>

\* client.Get returns an error, or ioutil.ReadAll does: log.Fatal(err).
RelayCallFails(r) ==
    /\ alive /\ pc[r] = "relayCall"
    /\ ClientTokenValid(r)
    /\ netCalls' = netCalls \cup {CallEntry(r)}
    /\ Fatal(r)
    /\ sent' = [sent EXCEPT ![r] = @ + 1]
    /\ UNCHANGED <<got, storeErr>>
    /\ UNCHANGED <<cleared, completed, mutation, cvars>>
    /\ UNCHANGED <<store, req, local, tok, resp, accepted, nextTok, begun, exchanges>>

\* client.Get returns a response, whatever its status; its body is read
\* into UserCollection.Body and the handler writes the collection as JSON.
RelayCallReturns(r) ==
    /\ alive /\ pc[r] = "relayCall"
    /\ ClientTokenValid(r)
    /\ netCalls' = netCalls \cup {CallEntry(r)}
    /\ sent' = [sent EXCEPT ![r] = @ + 1]
    /\ \E st \in Statuses, b \in Bodies :
          /\ got' = [got EXCEPT ![r] = [status |-> st, body |-> b]]
          /\ Finish(r, Written(MarshalIndent(Some(b))))
    /\ UNCHANGED storeErr
    /\ store' = RelayLeaves(r)
    /\ UNCHANGED <<cleared, completed, mutation, cvars>>
    /\ UNCHANGED <<alive, req, local, accepted, nextTok, begun, exchanges>>

UserCollectionHandler(r) ==
    \/ RelayGetFails(r)
    \/ RelayPanics(r)
    \/ RelayGet(r)
    \/ RelayTokenExpired(r)
    \/ RelayRefreshes(r)
    \/ RelayRefreshFails(r)
    \/ RelayCallFails(r)
    \/ RelayCallReturns(r)

\* ---------------------------------------------------------------- Clear
\* CredentialStore.Clear of the specification: the session's credential is
\* removed.
ClearValues(v) == [v EXCEPT !.token = Absent]

\* A request that clears the credential of session s (a logout).
Clear(s) ==
    /\ alive
    /\ accepted < MaxRequests
    /\ accepted' = accepted + 1
    /\ store[s].token # Absent
    /\ store' = [store EXCEPT ![s] = ClearValues(@)]
    /\ cleared' = cleared \cup {s}
    /\ UNCHANGED <<completed, mutation, cvars>>
    /\ UNCHANGED <<alive, req, pc, local, tok, resp, nextTok, begun, exchanges,
                   netCalls, sent, got, storeErr>>

\* ------------------------------------------------ the mutation operations
\* The mutation operations of the transaction resource.
MutationOps ==
    { "EditWaivers", "AcceptTrade", "RejectTrade", "AllowTrade", "DisallowTrade",
      "VoteDownTrade", "DeleteWaiver", "DeletePendingTrade" }

\* The URL for PUTting to and DELETEing a transaction resource.
TransactionURL ==
    <<"http://fantasysports.yahooapis.com", "/fantasy/v2/transaction/">>

\* The fields of the input XML the source documents for each operation, the
\* document a caller has to supply; a DELETE has none.
InputDocument(op) ==
    CASE op = "EditWaivers" ->
             <<"transaction_key", "type=waiver", "waiver_priority", "faab_bid">>
      [] op \in {"AcceptTrade", "RejectTrade"} ->
             <<"transaction_key", "type=pending_trade", "action", "trade_note">>
      [] op \in {"AllowTrade", "DisallowTrade"} ->
             <<"transaction_key", "type=pending_trade", "action">>
      [] op = "VoteDownTrade" ->
             <<"transaction_key", "type=pending_trade", "action", "voter_team_key">>
      [] OTHER -> <<>>

\* StubRequests, were the operation to send the PUT or DELETE its comment
\* describes.
StubRequestsDocumented(op) ==
    { [sess |-> 1, access |-> {}, url |-> TransactionURL, authorization |-> {},
       body |-> InputDocument(op)] }

\* The requests a mutation operation issues: its body is a comment, it
\* issues none.
StubRequests(op) == {}

\* A call of a mutation operation: an empty function, taking no argument
\* and returning nothing.  The call counts against the bound of operations.
Stub(op) ==
    /\ alive
    /\ accepted < MaxRequests
    /\ accepted' = accepted + 1
    /\ mutation' = [op |-> op, n |-> mutation.n + 1]
    /\ netCalls' = netCalls \cup StubRequests(op)
    /\ UNCHANGED <<alive, store, req, pc, local, tok, resp, nextTok, begun,
                   exchanges, sent, got, storeErr, cleared, completed, cvars>>

EditWaivers == Stub("EditWaivers")

AcceptTrade == Stub("AcceptTrade")

RejectTrade == Stub("RejectTrade")

AllowTrade == Stub("AllowTrade")

DisallowTrade == Stub("DisallowTrade")

VoteDownTrade == Stub("VoteDownTrade")

DeleteWaiver == Stub("DeleteWaiver")

DeletePendingTrade == Stub("DeletePendingTrade")

\* ------------------------------------------------------------- restart
\* After log.Fatal the operator starts the server again: NewYahooConfig with
\* the same session store.  The requests that were in flight are gone.
Restart ==
    /\ ~alive
    /\ alive' = TRUE
    /\ req' = [r \in Slots |-> NoReq]
    /\ pc' = [r \in Slots |-> "idle"]
    /\ local' = [r \in Slots |-> EmptyValues]
    /\ tok' = [r \in Slots |-> Absent]
    /\ resp' = [r \in Slots |-> NoResp]
    /\ sent' = [r \in Slots |-> 0]
    /\ got' = [r \in Slots |-> NoRemote]
    /\ storeErr' = [r \in Slots |-> FALSE]
    /\ UNCHANGED <<cleared, completed, mutation, cvars>>
    /\ UNCHANGED <<store, accepted, nextTok, begun, exchanges, netCalls>>

Next ==
    \/ \E r \in Slots, s \in Sessions :
          \/ Accept(r, "auth", s, <<>>, <<>>)
          \/ Accept(r, "relay", s, <<>>, <<>>)
          \/ \E st \in CallbackStates : Accept(r, "callback", s, st, GuidOf(s))
    \/ \E r \in Slots : AuthYahoo(r)
    \/ \E r \in Slots : AuthYahooCallback(r)
    \/ \E r \in Slots : UserCollectionHandler(r)
    \/ \E s \in Sessions : Clear(s)
    \/ EditWaivers
    \/ AcceptTrade
    \/ RejectTrade
    \/ AllowTrade
    \/ DisallowTrade
    \/ VoteDownTrade
    \/ DeleteWaiver
    \/ DeletePendingTrade
    \/ Restart

Spec == Init /\ [][Next]_vars

\* ------------------------------------------ ResourceAddress and Compose
\* The bounds of the addresses tried.
MaxFilters == 2
MaxOut == 2
MaxComposeCalls == 2
MaxExecutes == 1

\* The characters of the addresses in the order of their codes, by which
\* strings compare.
Chars ==
    <<",", ".", "/", "0", "1", "2", "3", "4", "5", "6", "7", "8", "9", ";", "=",
      "A", "Q", "_",
      "a", "b", "c", "d", "e", "g", "i", "k", "l", "m", "n", "o", "p", "r", "s", "t",
      "u", "w", "y">>

Ord(c) == CHOOSE i \in DOMAIN Chars : Chars[i] = c

\* a < b for strings: the comparison by characters.
RECURSIVE LexLess(_, _)
LexLess(a, b) ==
    IF b = <<>> THEN FALSE
    ELSE IF a = <<>> THEN TRUE
    ELSE IF Head(a) = Head(b) THEN LexLess(Tail(a), Tail(b))
    ELSE Ord(Head(a)) < Ord(Head(b))

EntityTypes == { <<"p", "l", "a", "y", "e", "r", "s">>, <<"t", "e", "a", "m">> }

ResourceKeys == << <<"2", "2", "3", ".", "l", ".", "4", "3", "1">>, <<"2", "2", "3", ".", "l", ".", "4", "3", "1", ".", "t", ".", "1">> >>

\* The key lists of a segment: keyless (a collection), one key, several.
KeyLists == { <<>>, <<ResourceKeys[2]>>, ResourceKeys }

\* A segment of a sub_resource_chain: an entity type with its keys.
Segment(entity, keys) == [entity |-> entity, keys |-> keys]

Chains ==
    { <<>>, <<Segment(<<"t", "e", "a", "m", "s">>, <<>>), Segment(<<"r", "o", "s", "t", "e", "r">>, <<>>)>> }

FilterNames == { <<"p", "o", "s", "i", "t", "i", "o", "n">>, <<"s", "t", "a", "t", "u", "s">>, <<"t", "y", "p", "e">>, <<"t", "y", "p", "e", "s">> }

\* The value filtered by, one for each filter name.
FilterValueOf(n) ==
    CASE n = <<"p", "o", "s", "i", "t", "i", "o", "n">> -> <<"Q", "B">>
      [] n = <<"s", "t", "a", "t", "u", "s">> -> <<"A">>
      [] n = <<"t", "y", "p", "e">> -> <<"a", "d", "d">>
      [] n = <<"t", "y", "p", "e", "s">> -> <<"a", "d", "d", ",", "t", "r", "a", "d", "e">>

\* filters: a mapping of filter name to value.
FilterMaps ==
    { [n \in S |-> FilterValueOf(n)] :
        S \in { X \in SUBSET FilterNames : Cardinality(X) <= MaxFilters } }

\* An out selector: a sub-resource, which may itself carry a chain.
OutSelectors ==
    { [name |-> <<"s", "e", "t", "t", "i", "n", "g", "s">>, chain |-> <<>>],
      [name |-> <<"s", "t", "a", "n", "d", "i", "n", "g", "s">>, chain |-> <<>>],
      [name |-> <<"s", "e", "t", "t", "i", "n", "g", "s">>, chain |-> <<Segment(<<"t", "e", "a", "m", "s">>, <<>>)>>] }

OutLists ==
    UNION { [1..n -> OutSelectors] : n \in 0..MaxOut }

\* The ResourceAddress values tried.
Addresses ==
    { [entity |-> e, keys |-> k, chain |-> c, filters |-> f, out |-> o] :
        e \in EntityTypes, k \in KeyLists, c \in Chains, f \in FilterMaps,
        o \in OutLists }

\* The orders a mapping with the names S may be met in when iterated.
IterationOrders(S) ==
    { q \in [1..Cardinality(S) -> S] : \A n \in S : \E i \in DOMAIN q : q[i] = n }

\* The strings of ss joined by sep.
RECURSIVE Join(_, _)
Join(ss, sep) ==
    IF ss = <<>> THEN <<>>
    ELSE IF Len(ss) = 1 THEN ss[1]
    ELSE ss[1] \o sep \o Join(Tail(ss), sep)

\* {entity_type}, {entity_type}/{key}, or
\* {entity_type};{entity_type}_keys={k1},{k2},...
RenderSegment(seg) ==
    IF seg.keys = <<>> THEN seg.entity
    ELSE IF Len(seg.keys) = 1 THEN seg.entity \o <<"/">> \o seg.keys[1]
    ELSE seg.entity \o <<";">> \o seg.entity \o <<"_", "k", "e", "y", "s", "=">> \o Join(seg.keys, <<",">>)

\* /{segment} for each segment of the chain.
RECURSIVE RenderChain(_)
RenderChain(chain) ==
    IF chain = <<>> THEN <<>>
    ELSE <<"/">> \o RenderSegment(Head(chain)) \o RenderChain(Tail(chain))

\* SortNames, were the names rendered in the order they are met in.
Unsorted(names) == names

\* x put in its place in the sorted list.
RECURSIVE Insert(_, _)
Insert(x, sorted) ==
    IF sorted = <<>> THEN <<x>>
    ELSE IF LexLess(x, Head(sorted)) THEN <<x>> \o sorted
    ELSE <<Head(sorted)>> \o Insert(x, Tail(sorted))

RECURSIVE InsertionSort(_)
InsertionSort(names) ==
    IF names = <<>> THEN <<>>
    ELSE Insert(Head(names), InsertionSort(Tail(names)))

\* The filter names sorted, whatever order they were met in.
SortNames(names) == InsertionSort(names)

\* ;{filter}={value} for every name of names, in that order.
RECURSIVE RenderFilters(_, _)
RenderFilters(names, filters) ==
    IF names = <<>> THEN <<>>
    ELSE <<";">> \o Head(names) \o <<"=">> \o filters[Head(names)]
             \o RenderFilters(Tail(names), filters)

\* OutClause, were every selector given a clause of its own.
OutClausePerSelector(out) ==
    IF out = <<>> THEN <<>>
    ELSE Join([i \in DOMAIN out |-> <<";", "o", "u", "t", "=">> \o out[i].name], <<>>)

\* A single ;out={s1},{s2},... clause listing the selectors in the order
\* supplied; nothing when there are none.
OutClause(out) ==
    IF out = <<>> THEN <<>>
    ELSE <<";", "o", "u", "t", "=">> \o Join([i \in DOMAIN out |-> out[i].name], <<",">>)

\* ChainingValid, were the chain of an out selector dropped silently.
ChainingIgnored(a) == TRUE

\* An out sub-resource cannot itself carry chained sub-resources.
ChainingValid(a) ==
    \A i \in DOMAIN a.out : a.out[i].chain = <<>>

InvalidChaining == [error |-> "InvalidChaining", path |-> <<>>]

\* Compose(ResourceAddress) -> path string, meeting the filters in the
\* order `order`.
Compose(a, order) ==
    IF ~ChainingValid(a) THEN InvalidChaining
    ELSE [error |-> "",
          path |-> RenderSegment(Segment(a.entity, a.keys))
                     \o RenderChain(a.chain)
                     \o RenderFilters(SortNames(order), a.filters)
                     \o OutClause(a.out)]

\* The addresses are composed apart from the handlers, which stay as they
\* start: Compose is a pure function and Execute is given the address.
ComposeInit ==
    /\ InitHandlers
    /\ store = [s \in Sessions |-> EmptyValues]
    /\ address \in Addresses
    /\ runs = {}
    /\ executes = 0
    /\ outbound = 0

\* A call of Compose on the address; the filters mapping is met in some
\* order.
ComposeCall(order) ==
    /\ Cardinality(runs) < MaxComposeCalls
    /\ runs' = runs \cup {[iter |-> order, result |-> Compose(address, order)]}
    /\ UNCHANGED <<address, executes, outbound>>
    /\ UNCHANGED hvars

\* Execute(session, ResourceAddress, GET): the address is composed, and the
\* request issued unless Compose failed.
Execute(order) ==
    /\ executes < MaxExecutes
    /\ executes' = executes + 1
    /\ outbound' = IF Compose(address, order).error = "" THEN outbound + 1
                   ELSE outbound
    /\ UNCHANGED <<address, runs>>
    /\ UNCHANGED hvars

ComposeNext ==
    \/ \E order \in IterationOrders(DOMAIN address.filters) : ComposeCall(order)
    \/ \E order \in IterationOrders(DOMAIN address.filters) : Execute(order)

SpecCompose == ComposeInit /\ [][ComposeNext]_vars

\* ======================================================================
\* The claims
\* ======================================================================

\* The value a URL parser reads for the `state` parameter of a Location whose
\* query carries the text raw.
ParsedState(raw) ==
    LET r == QueryUnescape(raw) IN IF r.ok THEN r.s ELSE <<>>

\* C1: a callback whose `state` parameter differs from the `state` stored in
\* the session (a session without a stored `state` included) never reaches
\* the token exchange: every exchange issued was for a callback whose `state`
\* equals the stored one.
C1_MismatchNeverExchanges ==
    \A e \in exchanges : e.stored = Some(e.cbState)

\* C2: whenever AuthYahoo has answered a request whose session it obtained,
\* the answer is the redirect to the consent page, the session holds a
\* `state`, and the `state` parameter of the redirect is that value.
C2_BeginStoresAndSendsState ==
    \A r \in Slots :
        (req[r].kind = "auth" /\ pc[r] = "done" /\ resp[r] # Error500) =>
            /\ resp[r].kind = "redirect"
            /\ resp[r].base = "consent"
            /\ store[req[r].sess].state = Some(ParsedState(resp[r].state))

\* C3: a token exchange is issued only for a session that has been through
\* BeginAuthorization (PendingConsent); a callback for a session that never
\* ran AuthYahoo performs no exchange.
C3_ExchangeOnlyWhenPending ==
    \A e \in exchanges : e.begun

\* C4: a callback whose token exchange failed has returned an error to its
\* caller, and holds no token it could have written to the session.
C4_ExchangeFailureReturned ==
    \A r \in Slots :
        (req[r].kind = "callback" /\ pc[r] = "fatal") =>
            /\ resp[r].kind = "error"
            /\ tok[r] = Absent

\* C5: no failure of the token exchange or of a relayed call ends the
\* process: the server runs in every reachable state.
C5_NeverProcessFatal ==
    alive

\* C6: a callback reaches the token exchange only if no earlier exchange
\* failed for the same session with the same `state` parameter while the
\* session's stored `state` was the one it is now.
C6_StaleStateNotReused ==
    [][\A r \in Slots :
          (pc[r] = "cbExchange" /\ pc'[r] \in {"cbSave", "fatal"}) =>
              ~\E f \in exchanges :
                    /\ ~f.ok
                    /\ f.sess = req[r].sess
                    /\ f.cbState = req[r].state
                    /\ f.stored = local[r].state]_vars

\* C7: a relay call that obtained a session holding no `token` has returned
\* an error to its caller.
C7_NoCredentialNotAuthenticated ==
    \A r \in Slots :
        (/\ req[r].kind = "relay" /\ pc[r] = "done"
         /\ resp[r] # Written(MarshalIndent(Absent))
         /\ local[r].token = Absent) =>
            resp[r].kind = "error"

\* C8: a relay call that read a `token` stored by the callback has issued its
\* request and answered with the remote body.
C8_RelayReadsStoredCredential ==
    \A r \in Slots :
        (/\ req[r].kind = "relay" /\ pc[r] = "done"
         /\ \E t \in local[r].token : t.form = "ptr") =>
            resp[r].kind = "body"

\* C9: the step that ends a callback after a successful exchange leaves the
\* session store holding the token that exchange returned, and every token
\* a session holds is a whole one.
C9_ExchangeStoresNewCredential ==
    /\ [](\A s \in Sessions : \A t \in store[s].token : t.refresh \in {t.access, 0})
    /\ [][\A r \in Slots :
            (pc[r] = "cbSave" /\ pc'[r] = "done") =>
                store'[req[r].sess].token = tok[r]]_vars

\* C10: the stored values of a session change only in the saving step of a
\* callback of that session or by a Clear of that session, and every relayed
\* call of a session carried that session's own token (refreshed or not).
C10_CrossSessionIsolation ==
    /\ [](\A c \in netCalls :
            c.access \in { {t.access} : t \in {HostToken(c.sess), Refreshed(HostToken(c.sess))} })
    /\ [][\A s \in Sessions :
            store'[s] # store[s] =>
                \/ \E r \in Slots :
                      req[r].sess = s /\ pc[r] = "cbSave" /\ pc'[r] = "done"
                \/ /\ store'[s] = ClearValues(store[s])
                   /\ cleared' = cleared \cup {s}
                   /\ accepted' = accepted + 1]_vars

\* C10 witness: a callback has stored its values in one session while the
\* other, untouched, has had a call relayed.
C10_Witness ==
    \E c \in netCalls : \E s \in Sessions :
        /\ s # c.sess
        /\ store[s].guid # Absent
        /\ store[c.sess].guid = Absent

\* C11: a relay call that read an expired token has sent nothing, has not
\* ended the process, and has answered its caller with an error.
C11_ExpiredCredentialNotUsed ==
    \A r \in Slots :
        (/\ req[r].kind = "relay"
         /\ \E t \in local[r].token : t.form = "val" /\ t.expired) =>
            /\ sent[r] = 0
            /\ pc[r] # "fatal"
            /\ pc[r] = "done" => resp[r].kind = "error"

\* C12: a relay call the remote service answered with 401 has answered its
\* caller with an error, not with a body.
C12_RejectedCredentialSurfaced ==
    \A r \in Slots :
        (req[r].kind = "relay" /\ pc[r] = "done" /\ got[r].status = 401) =>
            resp[r].kind = "error"

\* C13: no handler has issued more than one outbound request, be it a relay
\* call or a callback.
C13_AtMostOneRequest ==
    \A r \in Slots : sent[r] <= 1

\* C14: the answer to a relayed GET carries the status the remote service
\* answered with, and the body it answered with.
C14_BodyAndStatusHandedBack ==
    \A r \in Slots :
        (req[r].kind = "relay" /\ pc[r] = "done" /\ got[r] # NoRemote) =>
            /\ resp[r].code = got[r].status
            /\ \E i \in DOMAIN resp[r].body : resp[r].body[i] = got[r].body

\* C15: a relay call whose outbound request failed on the network has
\* answered its caller with an error.
C15_TransportErrorReturned ==
    \A r \in Slots :
        (req[r].kind = "relay" /\ pc[r] = "fatal" /\ sent[r] > 0) =>
            resp[r].kind = "error"

\* C16: a relay request whose session the store could not return is answered
\* with an error, never with a success response.
C16_StoreErrorSurfaced ==
    \A r \in Slots :
        (req[r].kind = "relay" /\ pc[r] = "done" /\ storeErr[r]) =>
            /\ resp[r].kind = "error"
            /\ resp[r].code # 200

C18_LandingOnlyAfterPersisted ==
    [][\A r \in Slots :
          (pc[r] = "cbSave" /\ pc'[r] = "done" /\ resp'[r].base = "landing") =>
              store'[req[r].sess] = local'[r]]_vars

\* C19: no part of the URL of a relayed call is the text of the token the
\* call was made with; the token is in the Authorization header.
C19_TokenNotInURI ==
    \A c \in netCalls :
        /\ \A a \in c.access : \A i \in DOMAIN c.url : c.url[i] # TokenText(a)
        /\ c.authorization = { TokenText(a) : a \in c.access }

\* C19 witness: calls have been relayed with a stored token and with a
\* refreshed one.
C19_Witness ==
    /\ \E c \in netCalls : c.access = {HostToken(c.sess).access}
    /\ \E c \in netCalls : c.access = {Refreshed(HostToken(c.sess)).access}

\* C20: a session whose credential was cleared and not stored since holds no
\* token, and a relay call that found it so has answered with an error.
C20_GetAfterClear ==
    \A s \in cleared :
        /\ store[s].token = Absent
        /\ \A r \in Slots :
              (/\ req[r].kind = "relay" /\ pc[r] = "done" /\ req[r].sess = s
               /\ ~storeErr[r] /\ local[r].token = Absent) =>
                  resp[r].kind = "error"

\* The pieces of the string s between the characters c.
Split(s, c) ==
    LET seps == { i \in DOMAIN s : s[i] = c }
        n == Cardinality(seps)
        pos(k) == IF k = 0 THEN 0
                  ELSE IF k = n + 1 THEN Len(s) + 1
                  ELSE CHOOSE i \in seps : Cardinality({ j \in seps : j <= i }) = k
    IN  [k \in 1..(n + 1) |-> SubSeq(s, pos(k - 1) + 1, pos(k) - 1)]

\* The ;name=value clauses of a path, their names and their values.
Clauses(path) == Tail(Split(path, ";"))

ClauseName(p) == Split(p, "=")[1]

ClauseValue(p) == Join(Tail(Split(p, "=")), <<"=">>)

FilterClauses(path) ==
    SelectSeq(Clauses(path), LAMBDA p : ClauseName(p) \in FilterNames)

OutClauses(path) ==
    SelectSeq(Clauses(path), LAMBDA p : ClauseName(p) = <<"o", "u", "t">>)

\* C21: all calls of Compose on an address return the same, whatever order
\* the filters were inserted or met in and however many calls there were.
C21_ComposeDeterministic ==
    \A x, y \in runs : x.result = y.result

\* C21 witness: an address was composed twice, its filters met in two
\* different orders.
C21_Witness ==
    \E x, y \in runs :
        /\ x.iter # y.iter
        /\ x.result.error = ""

\* C22: in a composed path the filter clauses are those of the address, each
\* once with its value, in ascending lexical order of their names, and the
\* out selectors are in one ;out= clause in the order supplied; filters
\* {status:A, position:QB} on players compose to players;position=QB;status=A.
C22_FiltersSortedOutInOrder ==
    \A x \in runs :
        LET res == x.result
            fc == FilterClauses(res.path)
            oc == OutClauses(res.path)
        IN  res.error = "" =>
              /\ \A k \in 1..(Len(fc) - 1) :
                    LexLess(ClauseName(fc[k]), ClauseName(fc[k + 1]))
              /\ Len(fc) = Cardinality(DOMAIN address.filters)
              /\ \A k \in DOMAIN fc :
                    /\ ClauseName(fc[k]) \in DOMAIN address.filters
                    /\ ClauseValue(fc[k]) = address.filters[ClauseName(fc[k])]
              /\ Len(oc) = IF address.out = <<>> THEN 0 ELSE 1
              /\ \A k \in DOMAIN oc :
                    Split(ClauseValue(oc[k]), ",")
                        = [m \in DOMAIN address.out |-> address.out[m].name]
              /\ (/\ address.entity = <<"p", "l", "a", "y", "e", "r", "s">> /\ address.keys = <<>>
                  /\ address.chain = <<>> /\ address.out = <<>>
                  /\ DOMAIN address.filters = { <<"s", "t", "a", "t", "u", "s">>, <<"p", "o", "s", "i", "t", "i", "o", "n">> }) =>
                     res.path = <<"p", "l", "a", "y", "e", "r", "s", ";", "p", "o", "s", "i", "t", "i", "o", "n", "=", "Q", "B", ";", "s", "t", "a", "t", "u", "s", "=", "A">>

\* C22 witness: an address with two filters, met out of lexical order, and
\* two out selectors, supplied out of lexical order, was composed.
C22_Witness ==
    \E x \in runs :
        /\ x.result.error = ""
        /\ Len(x.iter) = 2
        /\ LexLess(x.iter[2], x.iter[1])
        /\ Len(address.out) = 2
        /\ LexLess(address.out[2].name, address.out[1].name)

\* C23: for an address one of whose out selectors carries a chain, every
\* Compose returned InvalidChaining and no path, and Execute issued no
\* request.
C23_InvalidChainingBeforeNetwork ==
    (\E i \in DOMAIN address.out : address.out[i].chain # <<>>) =>
        /\ \A x \in runs : x.result = InvalidChaining
        /\ outbound = 0

\* C23 witness: such an address was composed and executed.
C23_Witness ==
    /\ \E i \in DOMAIN address.out : address.out[i].chain # <<>>
    /\ runs # {}
    /\ executes = MaxExecutes

\* C24: once a mutation operation was called, a request to the transaction
\* resource carrying exactly the document of the call has been issued.
C24_BodyPassedThrough ==
    mutation.op \in MutationOps =>
        \E c \in netCalls :
            c.url = TransactionURL /\ c.body = InputDocument(mutation.op)

\* C25: a callback reaches the token exchange only if no callback carrying
\* the same `state` has completed for its session before.
C25_StateSingleUse ==
    [][\A r \in Slots :
          (pc[r] = "cbExchange" /\ pc'[r] \in {"cbSave", "fatal"}) =>
              <<req[r].sess, req[r].state>> \notin completed]_vars

\* C26: an AuthYahoo or AuthYahooCallback request whose session the store
\* failed to return is answered with the 500 error and has done nothing
\* else: nothing sent, no session value read or written, no redirect.
C26_StoreFailureAnswers500 ==
    /\ [](\A r \in Slots :
            (req[r].kind \in {"auth", "callback"} /\ storeErr[r]) =>
                /\ pc[r] = "done"
                /\ resp[r] = Error500
                /\ sent[r] = 0
                /\ local[r] = EmptyValues)
    /\ [][\A r \in Slots :
            (req[r].kind \in {"auth", "callback"} /\ ~storeErr[r] /\ storeErr'[r]) =>
                /\ store' = store
                /\ exchanges' = exchanges
                /\ begun' = begun
                /\ completed' = completed]_vars

\* C26 witness: the store has failed an AuthYahoo request and an
\* AuthYahooCallback request.
C26_Witness ==
    \E r1, r2 \in Slots :
        /\ req[r1].kind = "auth" /\ storeErr[r1]
        /\ req[r2].kind = "callback" /\ storeErr[r2]

\* C27: every redirect AuthYahoo has answered with is to the consent URL as
\* AuthCodeURL built it from the session's `state`, never to an empty or
\* partial location.
C27_RedirectTargetsConsentURL ==
    \A r \in Slots :
        (req[r].kind = "auth" /\ pc[r] = "done" /\ resp[r].kind = "redirect") =>
            /\ resp[r].base # ""
            /\ \E st \in local[r].state : resp[r] = Redirect(AuthCodeURL(st))

\* C28: a session that holds an xoauth_yahoo_guid holds a token, unless its
\* credential was cleared since; and every step that changes a session's
\* guid leaves it with a guid and a token.
C28_GuidOnlyWithToken ==
    /\ [](\A s \in Sessions :
            store[s].guid # Absent => (store[s].token # Absent \/ s \in cleared))
    /\ [][\A s \in Sessions :
            store'[s].guid # store[s].guid =>
                store'[s].guid # Absent /\ store'[s].token # Absent]_vars

\* C28 witness: a callback has stored a guid and a token in a session that
\* held neither.
C28_Witness ==
    \E s \in Sessions :
        /\ store[s].guid # Absent
        /\ \E t \in store[s].token : t.form = "ptr"
        /\ s \notin cleared

C30_HandshakeCompletes ==
    \A r \in Slots :
        req[r].kind \in {"auth", "callback"} =>
            /\ pc[r] # "done" => alive
            /\ pc[r] = "done" => resp[r].kind \in {"error", "redirect"}
            /\ (pc[r] = "done" /\ resp[r].base = "landing") =>
                  (store[req[r].sess].token # Absent \/ req[r].sess \in cleared)

====
